---- MODULE Spec2Model ----
(***************************************************************************)
(* Classroom API: user accounts and books behind an Express router, a      *)
(* MongoDB store and JWT bearer tokens.  Every route handler is modelled   *)
(* as the sequence of its store round trips; handlers of different         *)
(* requests interleave at those round trips (one request per slot).        *)
(***************************************************************************)
EXTENDS Integers, Sequences, FiniteSets, TLC

\* ------------------------------------------------------------------ bounds
MaxSlots == 2      \* requests in flight at the same time
MaxUsers == 2      \* user documents ever inserted
MaxBooks == 2      \* book documents ever inserted
MaxTicks == 2      \* clock advances (time specification only)
MaxTokens == 2     \* issued tokens that clients keep

Slots == 1..MaxSlots
Serial == {1}      \* the slot of a client that awaits each answer

\* ------------------------------------------------------- program constants
TokenLifetime == 24          \* hours, expiresIn: "24h"
MinUsernameLen == 3
MaxUsernameLen == 30
MinPasswordLen == 6
MaxTitleLen == 200
MaxAuthorLen == 100
MaxGenreLen == 50
MinYear == 1000
CurrentYear == 2025         \* new Date().getFullYear() when the server starts
MinPrice == 0
DefaultPage == 1
DefaultLimit == 10

\* ------------------------------------------------------------- data values
\* An ObjectId is a positive integer; 0 stands for "no document";
\* NotAnObjectId is a string that does not cast to an ObjectId.
NotAnObjectId == 0 - 1
GhostUser == MaxUsers + 1    \* a well-formed ObjectId that names no user

IsObjectId(x) == x > 0

Alnum == {"a", "b", "d", "i", "m", "n", "o", "1", "_"}

\* usernames are sequences of characters
Ann == <<"a", "n", "n">>
Bob == <<"b", "o", "b">>
AdminName == <<"a", "d", "m", "i", "n">>
ShortName == <<"a", "b">>
DashName == <<"a", "-", "b">>

\* an e-mail address is its local part and its domain
Email(l, d) == [local |-> l, domain |-> d]
AnnMail == Email("ann", "x.com")
BobMail == Email("bob", "x.com")
AdminMail == Email("admin", "cis.kku.ac.th")
BadMail == Email("ann", "")

NoUser == [id |-> 0, role |-> "none"]
NoToken == [userId |-> 0, iat |-> 0, exp |-> 0, sig |-> "none"]
NoBook == [id |-> 0, title |-> "", author |-> "", genre |-> "",
           year |-> {}, price |-> {}, available |-> FALSE, addedBy |-> 0]
EmptyBody == [f \in {} |-> 0]
NoAccount == [username |-> <<>>, email |-> Email("", ""), role |-> "none"]

Has(body, f) == f \in DOMAIN body

\* ------------------------------------------------------------------- state
VARIABLES
  users,     \* users collection: ObjectId -> document
  books,     \* books collection: ObjectId -> document
  userSeq,   \* user documents inserted so far (ObjectIds are never reused)
  bookSeq,   \* book documents inserted so far
  tokens,    \* bearer tokens issued so far (held by clients)
  reqs,      \* per slot: the request being handled and its handler position
  resp,      \* the response sent by the last step (NoResp: it sent none)
  now,       \* wall clock, hours
  ticks      \* clock advances so far

vars == <<users, books, userSeq, bookSeq, tokens, reqs, resp, now, ticks>>
store == <<users, books, userSeq, bookSeq>>

Idle == [pc |-> "idle", kind |-> "none", tok |-> NoToken, user |-> NoUser,
         id |-> 0, body |-> EmptyBody, list |-> <<>>]

NoResp == [kind |-> "none", status |-> 0, error |-> "", tok |-> NoToken,
           user |-> NoUser, body |-> EmptyBody, token |-> NoToken, id |-> 0,
           book |-> NoBook, list |-> <<>>, total |-> 0, genres |-> {},
           account |-> NoAccount, message |-> "",
           page |-> 0, limit |-> 0, pages |-> 0]

\* ---------------------------------------------------------- password hasher
\* bcrypt digest of a plaintext (User model, pre-save hook)
Hash(p) == [algo |-> "bcrypt", of |-> p]
\* the digest literal of the seed script: 59 characters, not a bcrypt digest
SeedDigest == [algo |-> "malformed", of |-> ""]
comparePassword(p, digest) == digest.algo = "bcrypt" /\ digest.of = p

\* the user document serialised as it is stored
toJSONWithPassword(doc) == doc

\* user.toJSON(): the document without its password
toJSON(doc) ==
  [username |-> doc.username, email |-> doc.email, role |-> doc.role]

\* ------------------------------------------------------------ token issuer
\* the lifetime mistaken for two days
generateTokenTwoDays(userId) ==
  [userId |-> userId, iat |-> now, exp |-> now + 2 * TokenLifetime, sig |-> "ok"]

generateToken(userId) ==
  [userId |-> userId, iat |-> now, exp |-> now + TokenLifetime, sig |-> "ok"]

\* a bearer string that does not verify against the signing secret
Forged == [userId |-> 1, iat |-> 0, exp |-> TokenLifetime, sig |-> "bad"]

\* what a client can put in the Authorization header
Presentable == tokens \cup {Forged, NoToken}

\* ------------------------------------------------------ credential store
\* the collection without its unique indexes
NoUniqueIndex(coll, id, doc) == TRUE

\* unique indexes on users.email and users.username
UniqueIndexOK(coll, id, doc) ==
  \A o \in DOMAIN coll \ {id} :
     coll[o].email # doc.email /\ coll[o].username # doc.username

\* the existence check looking at the e-mail address alone
findOneEmailOnly(email, username) ==
  {u \in DOMAIN users : users[u].email = email}

\* User.findOne({ $or: [{ email }, { username }] })
findOneByEmailOrUsername(email, username) ==
  {u \in DOMAIN users : users[u].email = email \/ users[u].username = username}

\* the lookup without its filter
findOneAny(email) == DOMAIN users

\* User.findOne({ email })
findOneByEmail(email) == {u \in DOMAIN users : users[u].email = email}

\* ----------------------------------------------------------------- seeding
SeedAdmin == [username |-> AdminName, email |-> AdminMail,
              password |-> SeedDigest, role |-> "admin"]
\* prices are in cents
SampleBook == [title |-> "1984", author |-> "George Orwell",
               genre |-> "Dystopian", year |-> {1949}, price |-> {1199},
               available |-> TRUE, addedBy |-> 1]

Init ==
  /\ \/ users = <<>> /\ books = <<>> /\ userSeq = 0 /\ bookSeq = 0
     \/ users = (1 :> SeedAdmin) /\ books = (1 :> SampleBook)
        /\ userSeq = 1 /\ bookSeq = 1
  /\ tokens = {}
  /\ reqs = [r \in Slots |-> Idle]
  /\ resp = NoResp
  /\ now = 0
  /\ ticks = 0

Respond(r, rec) ==
  /\ resp' = rec
  /\ reqs' = [reqs EXCEPT ![r] = Idle]

\* the response of a handler: the fields not named keep their defaults
Reply(kind, status, error, q) ==
  [NoResp EXCEPT !.kind = kind, !.status = status, !.error = error,
                 !.tok = q.tok, !.user = q.user, !.body = q.body,
                 !.id = q.id]

\* clients keep an issued token while they have room for it
Keep(t) == IF Cardinality(tokens) < MaxTokens THEN tokens \cup {t} ELSE tokens

\* ------------------------------------------------------------ POST /register
RegisterBodies ==
  [username : {Ann, Bob, AdminName}, email : {AnnMail, BobMail},
   password : {"secret1"}]
  \cup
  {[username |-> ShortName, email |-> AnnMail, password |-> "secret1"],
   [username |-> DashName, email |-> AnnMail, password |-> "secret1"],
   [username |-> Ann, email |-> BadMail, password |-> "secret1"],
   [username |-> Ann, email |-> AnnMail, password |-> "abc"],
   [username |-> Bob, email |-> BobMail, password |-> "secret1",
    role |-> "admin"]}

matchesUsername(u) == \A i \in 1..Len(u) : u[i] \in Alnum
isEmail(e) == e.local # "" /\ e.domain # ""

RegisterValid(b) ==
  /\ Len(b.username) >= MinUsernameLen /\ Len(b.username) <= MaxUsernameLen
  /\ matchesUsername(b.username)
  /\ isEmail(b.email)
  /\ Len(b.password) >= MinPasswordLen

\* user documents that handlers in flight are about to insert
PendingInserts == Cardinality({r \in Slots : reqs[r].kind = "register"})

\* validation and User.findOne: lines 128-147
RegisterFind(r) ==
  /\ reqs[r].pc = "idle"
  /\ \E b \in RegisterBodies :
       LET q == [Idle EXCEPT !.kind = "register", !.body = b]
           existingUser == findOneByEmailOrUsername(b.email, b.username)
       IN  IF ~RegisterValid(b)
             THEN Respond(r, Reply("register", 400, "validation", q))
           ELSE IF existingUser # {}
             THEN Respond(r, Reply("register", 400,
                    "User with this email or username already exists", q))
           ELSE /\ userSeq + PendingInserts < MaxUsers
                /\ reqs' = [reqs EXCEPT ![r] = [q EXCEPT !.pc = "save"]]
                /\ resp' = NoResp
  /\ UNCHANGED <<store, tokens, now, ticks>>

\* new User(req.body): a role the body carries is stored
NewUserWholeBody(b) ==
  [username |-> b.username, email |-> b.email,
   password |-> Hash(b.password),
   role |-> IF Has(b, "role") THEN b.role ELSE "user"]

\* new User({username, email, password}), as the pre-save hook stores it
NewUser(b) == [username |-> b.username, email |-> b.email,
               password |-> Hash(b.password), role |-> "user"]

\* user.save(), generateToken, 201: lines 149-169
RegisterSave(r) ==
  /\ reqs[r].pc = "save" /\ reqs[r].kind = "register"
  /\ LET q == reqs[r]
         id == userSeq + 1
         user == NewUser(q.body)
         token == generateToken(id)
     IN  IF UniqueIndexOK(users, id, user)
           THEN /\ users' = users @@ (id :> user)
                /\ userSeq' = id
                /\ tokens' = Keep(token)
                /\ Respond(r, [Reply("register", 201, "", q) EXCEPT
                                 !.user = [id |-> id, role |-> user.role],
                                 !.account = toJSON(user),
                                 !.token = token])
           ELSE /\ Respond(r, Reply("register", 500, "Registration failed", q))
                /\ UNCHANGED <<users, userSeq, tokens>>
  /\ UNCHANGED <<books, bookSeq, now, ticks>>

\* --------------------------------------------------------------- POST /login
LoginBodies ==
  [email : {AnnMail, BobMail, AdminMail}, password : {"secret1", "wrong12"}]
  \cup
  {[email |-> BadMail, password |-> "secret1"],
   [email |-> AnnMail, password |-> ""]}

LoginValid(b) == isEmail(b.email) /\ b.password # ""

\* the handler answering 404 when no user has the e-mail address
loginAnswersNotFound(coll, found, b) ==
  IF ~LoginValid(b)
    THEN {[status |-> 400, error |-> "validation", user |-> 0]}
  ELSE IF found = {}
    THEN {[status |-> 404, error |-> "User not found", user |-> 0]}
  ELSE UNION {
         IF coll[u].password.algo # "bcrypt"
           THEN {[status |-> 500, error |-> "Login failed", user |-> 0],
                 [status |-> 401, error |-> "Invalid email or password",
                  user |-> 0]}
         ELSE IF ~comparePassword(b.password, coll[u].password)
           THEN {[status |-> 401, error |-> "Invalid email or password",
                  user |-> 0]}
         ELSE {[status |-> 200, error |-> "", user |-> u]} : u \in found}

\* lines 218-252: the answers of the handler to body b when the lookup in
\* collection coll returns found; user is the account logged in, 0 if none
loginAnswers(coll, found, b) ==
  IF ~LoginValid(b)
    THEN {[status |-> 400, error |-> "validation", user |-> 0]}
  ELSE IF found = {}
    THEN {[status |-> 401, error |-> "Invalid email or password", user |-> 0]}
  ELSE UNION {
         IF coll[u].password.algo # "bcrypt"
           \* a digest the hasher cannot read: the comparison
           \* throws (500) or answers false (401)
           THEN {[status |-> 500, error |-> "Login failed", user |-> 0],
                 [status |-> 401, error |-> "Invalid email or password",
                  user |-> 0]}
         ELSE IF ~comparePassword(b.password, coll[u].password)
           THEN {[status |-> 401, error |-> "Invalid email or password",
                  user |-> 0]}
         ELSE {[status |-> 200, error |-> "", user |-> u]} : u \in found}

\* lines 212-253
Login(r) ==
  /\ reqs[r].pc = "idle"
  /\ \E b \in LoginBodies :
       LET q == [Idle EXCEPT !.kind = "login", !.body = b]
       IN  \E a \in loginAnswers(users, findOneByEmail(b.email), b) :
             IF a.status # 200
               THEN /\ Respond(r, Reply("login", a.status, a.error, q))
                    /\ UNCHANGED tokens
             ELSE LET token == generateToken(a.user)
                  IN  /\ tokens' = Keep(token)
                      /\ Respond(r, [Reply("login", 200, "", q) EXCEPT
                             !.user = [id |-> a.user,
                                       role |-> users[a.user].role],
                             !.account = toJSON(users[a.user]),
                             !.token = token])
  /\ UNCHANGED <<store, now, ticks>>

\* ------------------------------------------------------- auth middleware
\* DELETE /books/:id registered without the middleware
ProtectedButDelete == {"getProfile", "putProfile", "postBook", "putBook",
                       "myBooks"}
\* GET /books/:id registered with the middleware
ProtectedAndGetBook == {"getProfile", "putProfile", "postBook", "putBook",
                        "deleteBook", "myBooks", "getBook"}

\* the routes registered with the auth middleware
Protected == {"getProfile", "putProfile", "postBook", "putBook",
              "deleteBook", "myBooks"}

\* bearer extraction, jwt.verify and User.findById of the middleware
Authenticate(tok) ==
  IF tok.sig = "none"
    THEN [ok |-> FALSE, error |-> "MissingCredentials", user |-> NoUser]
  ELSE IF tok.sig # "ok"
    THEN [ok |-> FALSE, error |-> "InvalidToken", user |-> NoUser]
  ELSE IF now >= tok.exp
    THEN [ok |-> FALSE, error |-> "ExpiredToken", user |-> NoUser]
  ELSE IF tok.userId \notin DOMAIN users
    THEN [ok |-> FALSE, error |-> "UnauthorizedAccess", user |-> NoUser]
  ELSE [ok |-> TRUE, error |-> "",
        user |-> [id |-> tok.userId, role |-> users[tok.userId].role]]

\* the middleware chain in front of a route handler
Gate(kind, tok) ==
  IF kind \in Protected THEN Authenticate(tok)
  ELSE [ok |-> TRUE, error |-> "", user |-> NoUser]

\* the request as the handler of a route sees it
Arrive(kind, tok) ==
  [Idle EXCEPT !.kind = kind, !.tok = tok, !.user = Gate(kind, tok).user]

\* ------------------------------------------------------------- GET /profile
\* lines 287-296
GetProfile(r) ==
  /\ reqs[r].pc = "idle"
  /\ \E tok \in Presentable :
       LET g == Gate("getProfile", tok)
           q == Arrive("getProfile", tok)
       IN  IF ~g.ok THEN Respond(r, Reply("getProfile", 401, g.error, q))
           ELSE Respond(r, [Reply("getProfile", 200, "", q) EXCEPT
                              !.account = toJSON(users[q.user.id])])
  /\ UNCHANGED <<store, tokens, now, ticks>>

\* ------------------------------------------------------------- PUT /profile
\* a body field is a set: empty when the field is absent
ProfileBodies ==
  [username : {{}, {Bob}, {AdminName}}, email : {{}, {BobMail}},
   role : {{}}, password : {{}}]
  \cup
  {[username |-> {ShortName}, email |-> {}, role |-> {}, password |-> {}],
   [username |-> {<<>>}, email |-> {}, role |-> {}, password |-> {}],
   [username |-> {DashName}, email |-> {}, role |-> {}, password |-> {}],
   [username |-> {}, email |-> {BadMail}, role |-> {}, password |-> {}],
   [username |-> {}, email |-> {}, role |-> {"admin"},
    password |-> {"hacked1"}],
   [username |-> {Bob}, email |-> {}, role |-> {"admin"},
    password |-> {"hacked1"}]}

ProfileValid(b) ==
  /\ \A u \in b.username :
        Len(u) >= MinUsernameLen /\ Len(u) <= MaxUsernameLen
  /\ \A e \in b.email : isEmail(e)

\* auth and validation: lines 345-363
PutProfileAuth(r) ==
  /\ reqs[r].pc = "idle"
  /\ \E tok \in Presentable :
       LET g == Gate("putProfile", tok)
           q == Arrive("putProfile", tok)
       IN  IF ~g.ok THEN Respond(r, Reply("putProfile", 401, g.error, q))
           ELSE \E b \in ProfileBodies :
                  IF ~ProfileValid(b)
                    THEN Respond(r, Reply("putProfile", 400, "validation", q))
                  ELSE /\ reqs' = [reqs EXCEPT ![r] =
                              [q EXCEPT !.pc = "update", !.body = b]]
                       /\ resp' = NoResp
  /\ UNCHANGED <<store, tokens, now, ticks>>

\* the request body handed to the store as it came
updatesWholeBody(b) == b

\* const { username, email } = req.body; the truthy ones go into updates
updates(b) ==
  [username |-> {u \in b.username : Len(u) > 0},
   email |-> {e \in b.email : e # Email("", "")},
   role |-> {}, password |-> {}]

\* the document a user names in the request body
ProfileTargetByName(q) ==
  LET named == {u \in DOMAIN users : users[u].username \in q.body.username}
  IN  IF named = {} THEN q.user.id ELSE CHOOSE u \in named : TRUE

\* the first argument of findByIdAndUpdate: req.user._id
ProfileTarget(q) == q.user.id

\* runValidators against the User schema as the README documents it:
\* username and email are required strings, role is one of user, admin
userSchemaAccepts(upd) ==
  /\ \A u \in upd.username : Len(u) > 0
  /\ \A e \in upd.email : e # Email("", "")
  /\ upd.role \subseteq {"user", "admin"}

\* the document after $set of the updates (no save hook runs: a password
\* would be stored as sent)
ApplyUpdates(doc, upd) ==
  [doc EXCEPT
     !.username = IF upd.username = {} THEN @
                  ELSE CHOOSE u \in upd.username : TRUE,
     !.email = IF upd.email = {} THEN @
               ELSE CHOOSE e \in upd.email : TRUE,
     !.role = IF upd.role = {} THEN @
              ELSE CHOOSE x \in upd.role : TRUE,
     !.password = IF upd.password = {} THEN @
                  ELSE [algo |-> "plain",
                        of |-> CHOOSE x \in upd.password : TRUE]]

\* User.findByIdAndUpdate and the answer: lines 371-383
PutProfileUpdate(r) ==
  /\ reqs[r].pc = "update" /\ reqs[r].kind = "putProfile"
  /\ LET q == reqs[r]
         id == ProfileTarget(q)
         upd == updates(q.body)
     IN  IF id \notin DOMAIN users
           THEN /\ Respond(r, Reply("putProfile", 500, "Failed to update profile", q))
                /\ UNCHANGED users
         ELSE IF \/ ~userSchemaAccepts(upd)
                 \/ ~UniqueIndexOK(users, id, ApplyUpdates(users[id], upd))
           THEN /\ Respond(r, Reply("putProfile", 500, "Failed to update profile", q))
                /\ UNCHANGED users
         ELSE /\ users' = [users EXCEPT ![id] = ApplyUpdates(@, upd)]
              /\ Respond(r, [Reply("putProfile", 200, "", q) EXCEPT
                               !.account = toJSON(ApplyUpdates(users[id], upd))])
  /\ UNCHANGED <<books, userSeq, bookSeq, tokens, now, ticks>>

\* ------------------------------------------------------------ resource store
Doc(id) == IF id \in DOMAIN books
             THEN [id |-> id, title |-> books[id].title,
                   author |-> books[id].author, genre |-> books[id].genre,
                   year |-> books[id].year, price |-> books[id].price,
                   available |-> books[id].available,
                   addedBy |-> books[id].addedBy]
           ELSE NoBook

\* ids a client can put in the path
BookIdInputs == (1..MaxBooks) \cup {NotAnObjectId}
\* values a client can send as addedBy
AddedByInputs == (1..MaxUsers) \cup {GhostUser, NotAnObjectId}

The(s) == CHOOSE v \in s : TRUE

\* ---------------------------------------------------------------- POST /books
PostBodies ==
  [title : {{"Dune"}}, author : {{"Herbert"}}, genre : {{}},
   year : {{1965}}, price : {{MinPrice}},
   available : {{}}, addedBy : {{}} \cup {{a} : a \in AddedByInputs}]
  \cup
  [title : {{}, {""}, {" "}}, author : {{"Herbert"}}, genre : {{}},
   year : {{}}, price : {{}}, available : {{}}, addedBy : {{}}]
  \cup
  [title : {{"Dune"}}, author : {{}, {""}}, genre : {{}},
   year : {{}}, price : {{}}, available : {{}}, addedBy : {{}}]
  \cup
  [title : {{"Dune"}}, author : {{"Herbert"}}, genre : {{}},
   year : {{MinYear - 1}, {CurrentYear + 1}}, price : {{}},
   available : {{}}, addedBy : {{}}]
  \cup
  [title : {{"Dune"}}, author : {{"Herbert"}}, genre : {{}},
   year : {{}}, price : {{MinPrice - 1}},
   available : {{}}, addedBy : {{}}]

\* isInt({ min: 1000, max: new Date().getFullYear() })
validYear(y) == y >= MinYear /\ y <= CurrentYear
\* isFloat({ min: 0 })
validPrice(p) == p >= MinPrice

PostValid(b) ==
  /\ b.title # {} /\ \A t \in b.title : t # "" /\ Len(t) <= MaxTitleLen
  /\ b.author # {} /\ \A a \in b.author : a # "" /\ Len(a) <= MaxAuthorLen
  /\ \A g \in b.genre : Len(g) <= MaxGenreLen
  /\ \A y \in b.year : validYear(y)
  /\ \A p \in b.price : validPrice(p)

\* the spread written last: { addedBy: req.user._id, ...req.body }
bookDataBodyLast(b, user) ==
  IF b.addedBy = {} THEN [b EXCEPT !.addedBy = {user.id}] ELSE b

\* { ...req.body, addedBy: req.user._id }
bookData(b, user) == [b EXCEPT !.addedBy = {user.id}]

\* book documents that handlers in flight are about to insert
PendingBooks ==
  Cardinality({r \in Slots : reqs[r].kind = "postBook" /\ reqs[r].pc = "save"})

\* auth and validation: lines 293-333
PostBookAuth(r) ==
  /\ reqs[r].pc = "idle"
  /\ \E tok \in Presentable :
       LET g == Gate("postBook", tok)
           q == Arrive("postBook", tok)
       IN  IF ~g.ok THEN Respond(r, Reply("postBook", 401, g.error, q))
           ELSE \E b \in PostBodies :
           IF ~PostValid(b)
             THEN Respond(r, Reply("postBook", 400, "validation", q))
           ELSE /\ bookSeq + PendingBooks < MaxBooks
                /\ reqs' = [reqs EXCEPT ![r] =
                                   [q EXCEPT !.pc = "save", !.body = b]]
                /\ resp' = NoResp
  /\ UNCHANGED <<store, tokens, now, ticks>>

\* trim: true of the schema's string paths
trim(s) == IF s = " " THEN "" ELSE s

\* the validators of bookSchema on the paths that are set
schemaAccepts(d) ==
  /\ \A t \in d.title : trim(t) # "" /\ Len(trim(t)) <= MaxTitleLen
  /\ \A a \in d.author : trim(a) # "" /\ Len(trim(a)) <= MaxAuthorLen
  /\ \A g \in d.genre : Len(trim(g)) <= MaxGenreLen
  /\ \A y \in d.year : validYear(y)
  /\ \A p \in d.price : validPrice(p)
  /\ \A o \in d.addedBy : IsObjectId(o)

\* new Book(bookData) with the schema setters and defaults
NewBook(d) ==
  [title |-> trim(The(d.title)), author |-> trim(The(d.author)),
   genre |-> IF d.genre = {} THEN "" ELSE trim(The(d.genre)),
   year |-> d.year, price |-> d.price,
   available |-> IF d.available = {} THEN TRUE ELSE The(d.available),
   addedBy |-> The(d.addedBy)]

\* bookData, new Book, book.save(): lines 335-341
PostBookSave(r) ==
  /\ reqs[r].pc = "save" /\ reqs[r].kind = "postBook"
  /\ LET id == bookSeq + 1
         d == bookData(reqs[r].body, reqs[r].user)
     IN  IF schemaAccepts(d)
           THEN /\ books' = books @@ (id :> NewBook(d))
                /\ bookSeq' = id
                /\ reqs' = [reqs EXCEPT ![r] =
                              [@ EXCEPT !.pc = "fetch", !.id = id]]
                /\ resp' = NoResp
         ELSE /\ Respond(r, Reply("postBook", 500, "Failed to create book",
                               reqs[r]))
              /\ UNCHANGED <<books, bookSeq>>
  /\ UNCHANGED <<users, userSeq, tokens, now, ticks>>

\* Book.findById(book._id).populate and the 201 answer: lines 343-351
PostBookFetch(r) ==
  /\ reqs[r].pc = "fetch" /\ reqs[r].kind = "postBook"
  /\ Respond(r, [Reply("postBook", 201, "", reqs[r]) EXCEPT
                   !.book = Doc(reqs[r].id)])
  /\ UNCHANGED <<store, tokens, now, ticks>>

\* ------------------------------------------------------------- PUT /books/:id
PutBodies ==
  [title : {{}, {""}, {" "}}, author : {{}}, genre : {{}},
   year : {{}}, price : {{}}, available : {{}}, addedBy : {{}}]
  \cup
  [title : {{"Emma"}}, author : {{"Austen"}}, genre : {{}},
   year : {{1815}}, price : {{MinPrice}}, available : {{FALSE}},
   addedBy : {{}}]
  \cup
  [title : {{}}, author : {{}}, genre : {{}},
   year : {{}}, price : {{}},
   available : {{}}, addedBy : {{a} : a \in AddedByInputs}]
  \cup
  [title : {{}}, author : {{""}}, genre : {{}},
   year : {{}}, price : {{}}, available : {{}}, addedBy : {{}}]
  \cup
  [title : {{}}, author : {{}}, genre : {{}},
   year : {{MinYear - 1}, {CurrentYear + 1}}, price : {{}},
   available : {{}}, addedBy : {{}}]
  \cup
  [title : {{}}, author : {{}}, genre : {{}},
   year : {{}}, price : {{MinPrice - 1}},
   available : {{}}, addedBy : {{}}]

PutValid(b) ==
  /\ \A t \in b.title : Len(t) <= MaxTitleLen
  /\ \A a \in b.author : Len(a) <= MaxAuthorLen
  /\ \A g \in b.genre : Len(g) <= MaxGenreLen
  /\ \A y \in b.year : validYear(y)
  /\ \A p \in b.price : validPrice(p)

\* auth and validation: lines 425-463
PutBookAuth(r) ==
  /\ reqs[r].pc = "idle"
  /\ \E tok \in Presentable :
       LET g == Gate("putBook", tok)
           a == Arrive("putBook", tok)
       IN  IF ~g.ok THEN Respond(r, Reply("putBook", 401, g.error, a))
           ELSE \E id \in BookIdInputs, b \in PutBodies :
           IF ~PutValid(b)
             THEN Respond(r, Reply("putBook", 400, "validation", a))
           ELSE /\ reqs' = [reqs EXCEPT ![r] =
                              [a EXCEPT !.pc = "find", !.id = id, !.body = b]]
                /\ resp' = NoResp
  /\ UNCHANGED <<store, tokens, now, ticks>>

\* the check with || in the place of &&
AccessDeniedEither(book, user) ==
  book.addedBy # user.id \/ user.role # "admin"

\* book.addedBy.toString() !== req.user._id.toString() &&
\* req.user.role !== "admin"
AccessDenied(book, user) == book.addedBy # user.id /\ user.role # "admin"

\* Book.findById and the owner-or-admin check of PUT and DELETE
FindOwned(r, kind, next, denied, failed) ==
  /\ reqs[r].pc = "find" /\ reqs[r].kind = kind
  /\ LET q == reqs[r]
         book == Doc(q.id)
     IN  IF ~IsObjectId(q.id)
           THEN Respond(r, Reply(kind, 500, failed, q))
         ELSE IF book = NoBook
           THEN Respond(r, Reply(kind, 404, "Book not found", q))
         ELSE IF AccessDenied(book, q.user)
           THEN Respond(r, Reply(kind, 403, denied, q))
         ELSE /\ reqs' = [reqs EXCEPT ![r] = [q EXCEPT !.pc = next]]
              /\ resp' = NoResp
  /\ UNCHANGED <<store, tokens, now, ticks>>

\* lines 465-479
PutBookFind(r) ==
  FindOwned(r, "putBook", "update",
            "Access denied. You can only update your own books.",
            "Failed to update book")

\* the update cast only: runValidators left out
UpdateAcceptedUnvalidated(b) == \A o \in b.addedBy : IsObjectId(o)

\* the update document passes casting and the schema's update validators
UpdateAccepted(b) == schemaAccepts(b)

\* the document after $set of the request body
ApplyBody(doc, b) ==
  [doc EXCEPT
     !.title = IF b.title = {} THEN @ ELSE trim(The(b.title)),
     !.author = IF b.author = {} THEN @ ELSE trim(The(b.author)),
     !.genre = IF b.genre = {} THEN @ ELSE trim(The(b.genre)),
     !.year = IF b.year = {} THEN @ ELSE b.year,
     !.price = IF b.price = {} THEN @ ELSE b.price,
     !.available = IF b.available = {} THEN @ ELSE The(b.available),
     !.addedBy = IF b.addedBy = {} THEN @ ELSE The(b.addedBy)]

\* Book.findByIdAndUpdate(id, req.body, ...) and the answer: lines 481-494
PutBookUpdate(r) ==
  /\ reqs[r].pc = "update" /\ reqs[r].kind = "putBook"
  /\ LET q == reqs[r]
     IN  IF ~UpdateAccepted(q.body)
           THEN /\ Respond(r, Reply("putBook", 500, "Failed to update book", q))
                /\ UNCHANGED books
         ELSE IF q.id \notin DOMAIN books
           THEN /\ Respond(r, Reply("putBook", 200, "", q))
                /\ UNCHANGED books
         ELSE /\ books' = [books EXCEPT ![q.id] = ApplyBody(@, q.body)]
              /\ Respond(r, [Reply("putBook", 200, "", q) EXCEPT
                               !.book = [id |-> q.id] @@ ApplyBody(books[q.id], q.body)])
  /\ UNCHANGED <<users, userSeq, bookSeq, tokens, now, ticks>>

\* ---------------------------------------------------------- DELETE /books/:id
\* auth: line 550
DeleteBookAuth(r) ==
  /\ reqs[r].pc = "idle"
  /\ \E tok \in Presentable :
       LET g == Gate("deleteBook", tok)
           a == Arrive("deleteBook", tok)
       IN  IF ~g.ok THEN Respond(r, Reply("deleteBook", 401, g.error, a))
           ELSE \E id \in BookIdInputs :
                /\ reqs' = [reqs EXCEPT ![r] =
                              [a EXCEPT !.pc = "find", !.id = id]]
                /\ resp' = NoResp
  /\ UNCHANGED <<store, tokens, now, ticks>>

\* the handler deleting first and checking the owner afterwards
DeleteBookFindDeleting(r) ==
  /\ reqs[r].pc = "find" /\ reqs[r].kind = "deleteBook"
  /\ LET q == reqs[r]
         book == Doc(q.id)
     IN  /\ books' = [b \in DOMAIN books \ {q.id} |-> books[b]]
         /\ IF book = NoBook
              THEN Respond(r, Reply("deleteBook", 404, "Book not found", q))
            ELSE IF AccessDenied(book, q.user)
              THEN Respond(r, Reply("deleteBook", 403,
                     "Access denied. You can only delete your own books.", q))
            ELSE Respond(r, Reply("deleteBook", 200, "", q))
  /\ UNCHANGED <<users, userSeq, bookSeq, tokens, now, ticks>>

\* lines 552-566
DeleteBookFind(r) ==
  FindOwned(r, "deleteBook", "delete",
            "Access denied. You can only delete your own books.",
            "Failed to delete book")

\* Book.findByIdAndDelete and the answer: lines 568-576
DeleteBookDelete(r) ==
  /\ reqs[r].pc = "delete" /\ reqs[r].kind = "deleteBook"
  /\ books' = [b \in DOMAIN books \ {reqs[r].id} |-> books[b]]
  /\ Respond(r, Reply("deleteBook", 200, "", reqs[r]))
  /\ UNCHANGED <<users, userSeq, bookSeq, tokens, now, ticks>>

\* ------------------------------------------------------------------ listings
RECURSIVE SortDesc(_)
\* .sort({ createdAt: -1 }): ObjectIds grow with the creation time
SortDesc(S) ==
  IF S = {} THEN <<>>
  ELSE LET m == CHOOSE x \in S : \A y \in S : y <= x
       IN  <<m>> \o SortDesc(S \ {m})

\* a query parameter is absent (the empty set), a number or another string
Num(n) == [nan |-> FALSE, val |-> n]
NotANumber == [nan |-> TRUE, val |-> 0]

\* parseInt(req.query.page) || 1: NaN and 0 are falsy
parseIntOr(param, default) ==
  IF param = {} THEN default
  ELSE LET x == The(param)
       IN  IF x.nan \/ x.val = 0 THEN default ELSE x.val

\* const skip = (page - 1) * limit
Skip(page, limit) == (page - 1) * limit

\* .skip(skip).limit(limit): the driver sends a negative limit as its
\* absolute value
PageOf(seq, page, limit) ==
  LET skip == Skip(page, limit)
      n == IF limit < 0 THEN 0 - limit ELSE limit
      last == IF skip + n < Len(seq) THEN skip + n ELSE Len(seq)
  IN  SubSeq(seq, skip + 1, last)

\* Math.ceil(total / limit)
Pages(total, limit) ==
  IF limit > 0 THEN (total + limit - 1) \div limit
  ELSE 0 - (total \div (0 - limit))

\* the books matching the query of GET /books
Matching(query) ==
  {b \in DOMAIN books : \A g \in query.genre : books[b].genre = g}

Queries ==
  [genre : {{}, {"Dystopian"}}, page : {{}}, limit : {{}}]
  \cup
  {[genre |-> {}, page |-> {NotANumber}, limit |-> {NotANumber}],
   [genre |-> {}, page |-> {Num(0)}, limit |-> {Num(0)}],
   [genre |-> {}, page |-> {Num(1)}, limit |-> {Num(2)}],
   [genre |-> {}, page |-> {Num(0 - 1)}, limit |-> {Num(1)}],
   [genre |-> {}, page |-> {Num(1)}, limit |-> {Num(0 - 1)}]}
  \cup
  [genre : {{}}, page : {{Num(1)}, {Num(2)}, {Num(3)}}, limit : {{Num(1)}}]

\* the parameters GET /books/user/my-books reads
MyQueries == {query \in Queries : query.genre = {}}

\* query parsing and Book.find: lines 144-175
GetBooksFind(r) ==
  /\ reqs[r].pc = "idle"
  /\ \E tok \in Presentable, query \in Queries :
       LET g == Gate("getBooks", tok)
           q == [Arrive("getBooks", tok) EXCEPT !.body = query]
           page == parseIntOr(query.page, DefaultPage)
           limit == parseIntOr(query.limit, DefaultLimit)
       IN  IF ~g.ok THEN Respond(r, Reply("getBooks", 401, g.error, q))
           ELSE IF Skip(page, limit) < 0
             \* the store refuses a negative skip
             THEN Respond(r, Reply("getBooks", 500, "Failed to fetch books", q))
           ELSE /\ reqs' = [reqs EXCEPT ![r] = [q EXCEPT !.pc = "count",
                     !.list = PageOf(SortDesc(Matching(query)), page, limit)]]
                /\ resp' = NoResp
  /\ UNCHANGED <<store, tokens, now, ticks>>

\* Book.countDocuments and the answer: lines 177-191
GetBooksCount(r) ==
  /\ reqs[r].pc = "count" /\ reqs[r].kind = "getBooks"
  /\ LET limit == parseIntOr(reqs[r].body.limit, DefaultLimit)
         total == Cardinality(Matching(reqs[r].body))
     IN  Respond(r, [Reply("getBooks", 200, "", reqs[r]) EXCEPT
                   !.list = reqs[r].list,
                   !.page = parseIntOr(reqs[r].body.page, DefaultPage),
                   !.limit = limit,
                   !.total = total,
                   !.pages = Pages(total, limit)])
  /\ UNCHANGED <<store, tokens, now, ticks>>

\* GET /books/:id, lines 228-244
GetBook(r) ==
  /\ reqs[r].pc = "idle"
  /\ \E tok \in Presentable, id \in BookIdInputs :
       LET g == Gate("getBook", tok)
           a == Arrive("getBook", tok)
           q == [a EXCEPT !.id = id]
       IN  IF ~g.ok THEN Respond(r, Reply("getBook", 401, g.error, a))
           ELSE IF ~IsObjectId(id)
             THEN Respond(r, Reply("getBook", 500, "Failed to fetch book", q))
           ELSE IF Doc(id) = NoBook
             THEN Respond(r, Reply("getBook", 404, "Book not found", q))
           ELSE Respond(r, [Reply("getBook", 200, "", q) EXCEPT !.book = Doc(id)])
  /\ UNCHANGED <<store, tokens, now, ticks>>

\* GET /books/genres/list, lines 671-679
GetGenres(r) ==
  /\ reqs[r].pc = "idle"
  /\ \E tok \in Presentable :
       LET g == Gate("getGenres", tok)
           q == Arrive("getGenres", tok)
       IN  IF ~g.ok THEN Respond(r, Reply("getGenres", 401, g.error, q))
           ELSE Respond(r, [Reply("getGenres", 200, "", q) EXCEPT
                  !.genres = {books[b].genre : b \in DOMAIN books} \ {""}])
  /\ UNCHANGED <<store, tokens, now, ticks>>

\* the filter left out: Book.find({})
MineUnfiltered(user) == DOMAIN books

\* the books of GET /books/user/my-books
Mine(user) == {b \in DOMAIN books : books[b].addedBy = user.id}

\* auth: line 621
MyBooksAuth(r) ==
  /\ reqs[r].pc = "idle"
  /\ \E tok \in Presentable :
       LET g == Gate("myBooks", tok)
           q == Arrive("myBooks", tok)
       IN  IF ~g.ok THEN Respond(r, Reply("myBooks", 401, g.error, q))
           ELSE \E query \in MyQueries :
                  /\ reqs' = [reqs EXCEPT ![r] =
                               [q EXCEPT !.pc = "find", !.body = query]]
                  /\ resp' = NoResp
  /\ UNCHANGED <<store, tokens, now, ticks>>

\* Book.find({ addedBy }): lines 623-631
MyBooksFind(r) ==
  /\ reqs[r].pc = "find" /\ reqs[r].kind = "myBooks"
  /\ LET q == reqs[r]
         page == parseIntOr(q.body.page, DefaultPage)
         limit == parseIntOr(q.body.limit, DefaultLimit)
     IN  IF Skip(page, limit) < 0
           THEN Respond(r, Reply("myBooks", 500,
                                 "Failed to fetch user books", q))
         ELSE /\ reqs' = [reqs EXCEPT ![r] = [q EXCEPT !.pc = "count",
                    !.list = PageOf(SortDesc(Mine(q.user)), page, limit)]]
              /\ resp' = NoResp
  /\ UNCHANGED <<store, tokens, now, ticks>>

\* Book.countDocuments and the answer: lines 633-647
MyBooksCount(r) ==
  /\ reqs[r].pc = "count" /\ reqs[r].kind = "myBooks"
  /\ LET limit == parseIntOr(reqs[r].body.limit, DefaultLimit)
         total == Cardinality(Mine(reqs[r].user))
     IN  Respond(r, [Reply("myBooks", 200, "", reqs[r]) EXCEPT
                   !.list = reqs[r].list,
                   !.page = parseIntOr(reqs[r].body.page, DefaultPage),
                   !.limit = limit,
                   !.total = total,
                   !.pages = Pages(total, limit)])
  /\ UNCHANGED <<store, tokens, now, ticks>>

\* ------------------------------------------------------------- environment
\* an administrator of the database changes the role of a user
SetRole ==
  /\ \E u \in DOMAIN users, role \in {"user", "admin"} :
       /\ users[u].role # role
       /\ users' = [users EXCEPT ![u].role = role]
  /\ resp' = NoResp
  /\ UNCHANGED <<books, userSeq, bookSeq, tokens, reqs, now, ticks>>

\* an administrator of the database removes a user document
DeleteUser ==
  /\ \E u \in DOMAIN users : users' = [v \in DOMAIN users \ {u} |-> users[v]]
  /\ resp' = NoResp
  /\ UNCHANGED <<books, userSeq, bookSeq, tokens, reqs, now, ticks>>

\* time passes
Tick ==
  /\ ticks < MaxTicks
  /\ \E d \in {1, TokenLifetime} : now' = now + d
  /\ ticks' = ticks + 1
  /\ resp' = NoResp
  /\ UNCHANGED <<store, tokens, reqs>>

\* ------------------------------------------------------- error middleware
\* what express.json() raises for a request body that is not JSON
ParseErrors == {"Unexpected end of JSON input"}

\* the routes that read a request body
BodyRoutes == {"register", "login", "putProfile", "postBook", "putBook"}

\* app.use(express.json()) hands its error to the error handling
\* middleware, which answers before any route handler runs: server.js
\* lines 21 and 85-92
ErrorMiddleware ==
  /\ \E kind \in BodyRoutes, err \in ParseErrors :
       resp' = [NoResp EXCEPT !.kind = kind, !.status = 500,
                              !.error = "Something went wrong!",
                              !.message = err]
  /\ UNCHANGED <<store, tokens, reqs, now, ticks>>

\* ------------------------------------------------------------ specifications
\* the handlers of routes/auth.js
Accounts(r) ==
  \/ RegisterFind(r)
  \/ RegisterSave(r)
  \/ Login(r)
  \/ GetProfile(r)
  \/ PutProfileAuth(r)
  \/ PutProfileUpdate(r)

\* the handlers of routes/books.js
Library(r) ==
  \/ PostBookAuth(r)
  \/ PostBookSave(r)
  \/ PostBookFetch(r)
  \/ PutBookAuth(r)
  \/ PutBookFind(r)
  \/ PutBookUpdate(r)
  \/ DeleteBookAuth(r)
  \/ DeleteBookFind(r)
  \/ DeleteBookDelete(r)
  \/ GetBooksFind(r)
  \/ GetBooksCount(r)
  \/ GetBook(r)
  \/ GetGenres(r)
  \/ MyBooksAuth(r)
  \/ MyBooksFind(r)
  \/ MyBooksCount(r)

\* the whole service
Next ==
  (\E r \in Slots : Accounts(r) \/ Library(r)) \/ SetRole \/ ErrorMiddleware
Spec == Init /\ [][Next]_vars

\* the account routes alone, requests interleaving
NextAccounts == \E r \in Slots : Accounts(r)
SpecAccounts == Init /\ [][NextAccounts]_vars

\* the account routes behind the application's middleware chain
NextServer == NextAccounts \/ ErrorMiddleware
SpecServer == Init /\ [][NextServer]_vars

\* a database with registered users who hold their tokens
InitLibrary ==
  /\ now = 0
  /\ ticks = 0
  /\ \/ /\ users = (1 :> NewUser([username |-> Ann, email |-> AnnMail,
                                    password |-> "secret1"]))
                  @@ (2 :> NewUser([username |-> Bob, email |-> BobMail,
                                    password |-> "secret1"]))
        /\ books = <<>> /\ bookSeq = 0
        /\ tokens = {generateToken(1), generateToken(2)}
     \/ /\ users = (1 :> SeedAdmin)
                  @@ (2 :> NewUser([username |-> Ann, email |-> AnnMail,
                                    password |-> "secret1"]))
        /\ books = (1 :> SampleBook) /\ bookSeq = 1
        /\ tokens = {generateToken(2)}
  /\ userSeq = 2
  /\ reqs = [r \in Slots |-> Idle]
  /\ resp = NoResp

\* the book routes, one request after the other, roles changing
NextLibrary == (\E r \in Serial : Library(r)) \/ SetRole
SpecLibrary == InitLibrary /\ [][NextLibrary]_vars

\* the book routes and nothing else
NextApi == \E r \in Serial : Library(r)
SpecApi == InitLibrary /\ [][NextApi]_vars

\* two registered users, the first of whom has created a book
InitRace ==
  /\ now = 0
  /\ ticks = 0
  /\ users = (1 :> NewUser([username |-> Ann, email |-> AnnMail,
                             password |-> "secret1"]))
              @@ (2 :> NewUser([username |-> Bob, email |-> BobMail,
                                password |-> "secret1"]))
  /\ userSeq = 2
  /\ books = (1 :> NewBook(bookData(
                 [title |-> {"Dune"}, author |-> {"Herbert"}, genre |-> {},
                  year |-> {1965}, price |-> {MinPrice}, available |-> {},
                  addedBy |-> {}],
                 [id |-> 1, role |-> "user"])))
  /\ bookSeq = 1
  /\ tokens = {generateToken(1), generateToken(2)}
  /\ reqs = [r \in Slots |-> Idle]
  /\ resp = NoResp

\* updates and deletions of books, requests interleaving
Writes(r) ==
  \/ PutBookAuth(r)
  \/ PutBookFind(r)
  \/ PutBookUpdate(r)
  \/ DeleteBookAuth(r)
  \/ DeleteBookFind(r)
  \/ DeleteBookDelete(r)
NextRace == \E r \in Slots : Writes(r)
SpecRace == InitRace /\ [][NextRace]_vars

\* the book list read while books are deleted, requests interleaving
Shelf(r) ==
  \/ GetBooksFind(r)
  \/ GetBooksCount(r)
  \/ DeleteBookAuth(r)
  \/ DeleteBookFind(r)
  \/ DeleteBookDelete(r)
NextShelf == \E r \in Slots : Shelf(r)
SpecShelf == InitRace /\ [][NextShelf]_vars

\* the routes behind the auth middleware, user documents being removed
Guarded(r) ==
  \/ GetProfile(r)
  \/ PutProfileAuth(r)
  \/ PutProfileUpdate(r)
  \/ PostBookAuth(r)
  \/ PostBookSave(r)
  \/ PostBookFetch(r)
  \/ PutBookAuth(r)
  \/ PutBookFind(r)
  \/ PutBookUpdate(r)
  \/ DeleteBookAuth(r)
  \/ DeleteBookFind(r)
  \/ DeleteBookDelete(r)
  \/ MyBooksAuth(r)
  \/ MyBooksFind(r)
  \/ MyBooksCount(r)
NextStale == (\E r \in Serial : Guarded(r)) \/ DeleteUser
SpecStale == InitLibrary /\ [][NextStale]_vars

\* issuing and presenting tokens while the clock runs
Sessions(r) ==
  \/ RegisterFind(r)
  \/ RegisterSave(r)
  \/ Login(r)
  \/ GetProfile(r)
NextTime == (\E r \in Slots : Sessions(r)) \/ Tick
SpecTime == Init /\ [][NextTime]_vars

\* ===================================================================== claims
\* slot r takes a step
Moves(r) == reqs'[r] # reqs[r]

\* C1: a PUT or DELETE that finds the book goes on to its write exactly when
\* the requester is the book's owner or an admin, and is answered 403 with
\* nothing changed otherwise; the write is answered 200, the book updated or
\* deleted, unless the store rejects the update document (500).
C1_OwnerOrAdmin ==
  [][\A r \in Slots :
       LET q == reqs[r] IN
       /\ (Moves(r) /\ q.pc = "find" /\ q.kind \in {"putBook", "deleteBook"}
              /\ q.id \in DOMAIN books)
           => IF q.user.id = books[q.id].addedBy \/ q.user.role = "admin"
                THEN /\ resp' = NoResp
                     /\ reqs'[r].pc =
                          (IF q.kind = "putBook" THEN "update" ELSE "delete")
                ELSE /\ resp'.kind = q.kind /\ resp'.status = 403
                     /\ reqs'[r] = Idle
                     /\ books' = books /\ users' = users
       /\ (Moves(r) /\ q.pc = "delete")
           => resp'.status = 200 /\ q.id \notin DOMAIN books'
       /\ (Moves(r) /\ q.pc = "update" /\ q.kind = "putBook")
           => \/ /\ resp'.status = 200
                 /\ q.id \in DOMAIN books =>
                      \A t \in q.body.title : books'[q.id].title = t
              \/ /\ resp'.status = 500 /\ books' = books
                 /\ \/ \E t \in q.body.title \cup q.body.author :
                          t \in {"", " "}
                    \/ NotAnObjectId \in q.body.addedBy
  ]_vars

\* an admin has updated a book of another user
C1_AdminUpdatesOthersBook ==
  /\ resp.kind = "putBook" /\ resp.status = 200
  /\ resp.user.role = "admin"
  /\ resp.book # NoBook /\ resp.book.title = "Emma"
  /\ resp.book.addedBy # resp.user.id

\* C2: no step changes the owner reference of a stored book.
C2_OwnerImmutable ==
  [][\A b \in DOMAIN books \cap DOMAIN books' :
       books'[b].addedBy = books[b].addedBy]_vars

\* C3: no two user documents share a username, no two share an e-mail.
C3_UniqueUsers ==
  \A u, v \in DOMAIN users :
     u # v => /\ users[u].username # users[v].username
              /\ users[u].email # users[v].email

\* the store has turned down the second of two racing registrations
C3_DuplicateRejected ==
  /\ resp.kind = "register" /\ resp.status = 500
  /\ \E u \in DOMAIN users : \/ users[u].username = resp.body.username
                               \/ users[u].email = resp.body.email

\* C4: a write the store rejects for a duplicate key is answered with a
\* client error (Conflict), never with an internal error.
C4_DuplicateKeyIsConflict ==
  [][\A r \in Slots :
       LET q == reqs[r] IN
       /\ (Moves(r) /\ q.pc = "save" /\ q.kind = "register"
              /\ \E u \in DOMAIN users :
                    \/ users[u].username = q.body.username
                    \/ users[u].email = q.body.email)
           => resp'.status \in {400, 409}
       /\ (Moves(r) /\ q.pc = "update" /\ q.kind = "putProfile"
              /\ \E u \in DOMAIN users \ {q.user.id} :
                    \/ users[u].username \in q.body.username
                    \/ users[u].email \in q.body.email)
           => resp'.status \in {400, 409}
  ]_vars

\* the username or the e-mail address of b is held by a user
C5_Held(b) ==
  \E u \in DOMAIN users :
     users[u].username = b.username \/ users[u].email = b.email

\* C5: a register request that finds its username or e-mail held is
\* answered 400, creates and changes no user and issues no token; it never
\* goes on to save.
C5_TakenIsRefused ==
  [][/\ (resp'.kind = "register" /\ reqs' = reqs /\ C5_Held(resp'.body))
        => /\ resp'.status = 400 /\ resp'.token = NoToken
           /\ users' = users /\ userSeq' = userSeq /\ tokens' = tokens
     /\ \A r \in Slots :
          (reqs[r].pc = "idle" /\ reqs'[r].kind = "register")
          => ~C5_Held(reqs'[r].body)
  ]_vars

\* a valid registration was refused because its name was taken
C5_ConflictAnswered ==
  /\ resp.kind = "register" /\ resp.status = 400
  /\ resp.error = "User with this email or username already exists"
  /\ RegisterValid(resp.body) /\ C5_Held(resp.body)
  /\ resp.token = NoToken

\* the routes the claim names as protected
C6_Routes == {"getProfile", "putProfile", "postBook", "putBook",
              "deleteBook", "myBooks"}
\* t was issued by the service for a user whose document is gone
C6_Stale(t) == t.sig = "ok" /\ t.userId \notin DOMAIN users

\* C6: a request to a protected route that presents a token whose user is
\* absent is answered 401 UnauthorizedAccess with the store untouched, and
\* never reaches the route handler.
C6_StaleTokenRejected ==
  [][/\ (resp'.kind \in C6_Routes /\ reqs' = reqs /\ C6_Stale(resp'.tok))
        => /\ resp'.status = 401 /\ resp'.error = "UnauthorizedAccess"
           /\ store' = store
     /\ \A r \in Slots :
          (reqs[r].pc = "idle" /\ reqs'[r].kind \in C6_Routes)
          => ~C6_Stale(reqs'[r].tok)
  ]_vars

\* a DELETE presenting the token of a removed user was turned away
C6_StaleDeleteRefused ==
  /\ resp.kind = "deleteBook" /\ resp.status = 401
  /\ resp.error = "UnauthorizedAccess"
  /\ C6_Stale(resp.tok) /\ resp.tok \in tokens
  /\ books # <<>>

\* C7: a token issued at time t expires at t + 24; presented after t + 24
\* it is rejected as expired, presented before t + 24 for a user that exists
\* it authenticates as the user it was issued for.
C7_TokenLifetime ==
  /\ \A t \in tokens : t.exp = t.iat + 24 /\ t.iat <= now
  /\ resp.token # NoToken
       => /\ resp.kind \in {"register", "login"}
          /\ resp.token.iat = now /\ resp.token.exp = now + 24
          /\ resp.token.userId = resp.user.id
  /\ (resp.kind = "getProfile" /\ resp.tok \in tokens)
       => /\ now > resp.tok.iat + 24
               => resp.status = 401 /\ resp.error = "ExpiredToken"
          /\ (now < resp.tok.iat + 24 /\ resp.tok.userId \in DOMAIN users)
               => resp.status = 200 /\ resp.user.id = resp.tok.userId

\* a token was presented more than 24 hours after its issuance and rejected
C7_ExpiredRejected ==
  /\ resp.kind = "getProfile" /\ resp.status = 401
  /\ resp.error = "ExpiredToken"
  /\ resp.tok \in tokens /\ now > resp.tok.iat + 24

\* C8: the three public reads are answered without the auth gate, from the
\* store and the request alone, and change neither collection.
C8_PublicReads ==
  [][/\ resp'.kind \in {"getBooks", "getBook", "getGenres"}
        => /\ store' = store /\ tokens' = tokens
           /\ resp'.status \in {200, 404, 500} /\ resp'.user = NoUser
           /\ resp'.kind = "getBook"
                => /\ resp'.status = 200 <=> resp'.id \in DOMAIN books
                   /\ resp'.status = 404
                        <=> (resp'.id > 0 /\ resp'.id \notin DOMAIN books)
                   /\ resp'.status = 200
                        => /\ resp'.book.id = resp'.id
                           /\ resp'.book.title = books[resp'.id].title
                           /\ resp'.book.addedBy = books[resp'.id].addedBy
           /\ resp'.kind = "getGenres"
                => /\ resp'.status = 200
                   /\ resp'.genres =
                        {g \in {books[b].genre : b \in DOMAIN books} : g # ""}
           /\ (resp'.kind = "getBooks" /\ resp'.status # 500)
                => /\ resp'.status = 200
                   /\ resp'.total = Cardinality(
                        {b \in DOMAIN books :
                           \A g \in resp'.body.genre : books[b].genre = g})
     /\ \A r \in Slots :
          (Moves(r) /\ reqs'[r].kind = "getBooks")
          => store' = store /\ reqs'[r].user = NoUser
  ]_vars

\* a caller without a token has read a book
C8_AnonymousRead ==
  /\ resp.kind = "getBook" /\ resp.status = 200
  /\ resp.tok = NoToken /\ resp.book # NoBook

\* C9: the book a POST inserts is owned by the requester, whatever addedBy
\* the request body carries; a POST inserts its book unless the store
\* refuses a blank title (500, nothing inserted).
C9_CreatorOwns ==
  [][\A r \in Slots :
       (Moves(r) /\ reqs[r].pc = "save" /\ reqs[r].kind = "postBook")
       => \/ /\ resp'.status = 500 /\ books' = books
             /\ reqs[r].body.title = {" "}
          \/ LET id == reqs'[r].id
             IN  /\ reqs'[r].pc = "fetch"
                 /\ id \notin DOMAIN books
                 /\ DOMAIN books' = DOMAIN books \cup {id}
                 /\ books'[id].addedBy = reqs[r].user.id
  ]_vars

\* a POST whose body named another owner created a book of the requester
C9_BodyOwnerIgnored ==
  /\ resp.kind = "postBook" /\ resp.status = 201
  /\ resp.body.addedBy # {} /\ resp.user.id \notin resp.body.addedBy
  /\ resp.book.addedBy = resp.user.id

\* C10: every stored book is owned by a user of the users collection.
C10_OwnerExists ==
  \A b \in DOMAIN books : books[b].addedBy \in DOMAIN users

\* a step of PUT /profile in slot r: q is the request as it stood before
C11_ProfileStep(r) ==
  \/ reqs[r].pc = "idle" /\ reqs'[r].kind = "putProfile"
  \/ Moves(r) /\ reqs[r].kind = "putProfile"

\* C11: a PUT /profile of user U leaves the document of every user other
\* than U as it was, creates and removes no user document, whatever the
\* request body; a PUT /profile that is turned away changes no user.
C11_OwnRecordOnly ==
  [][/\ \A r \in Slots :
          C11_ProfileStep(r)
          => /\ DOMAIN users' = DOMAIN users
             /\ \A v \in DOMAIN users :
                  v # (IF reqs[r].pc = "idle" THEN 0 ELSE reqs[r].user.id)
                  => users'[v] = users[v]
     /\ (resp'.kind = "putProfile" /\ reqs' = reqs) => users' = users
  ]_vars

\* a user renamed themselves to the name the body carries while another
\* user was registered
C11_RenamedAmongOthers ==
  /\ resp.kind = "putProfile" /\ resp.status = 200
  /\ resp.body.username = {Bob} /\ resp.body.email = {BobMail}
  /\ resp.user.id \in DOMAIN users
  /\ users[resp.user.id].username = Bob
  /\ \E v \in DOMAIN users : v # resp.user.id

\* C12: PUT /profile leaves the requester's role and password digest as
\* they were, keeps the value of a field that the body omits or sends
\* empty, sets no field to anything but the value the body carries, and
\* leaves the books collection unchanged.
C12_UsernameAndEmailOnly ==
  [][/\ \A r \in Slots :
          C11_ProfileStep(r)
          => /\ books' = books /\ bookSeq' = bookSeq
             /\ \A u \in DOMAIN users \cap DOMAIN users' :
                  /\ users'[u].role = users[u].role
                  /\ users'[u].password = users[u].password
                  /\ users'[u].username # users[u].username
                       => /\ reqs[r].pc = "update"
                          /\ users'[u].username \in reqs[r].body.username
                          /\ users'[u].username # <<>>
                  /\ users'[u].email # users[u].email
                       => /\ reqs[r].pc = "update"
                          /\ users'[u].email \in reqs[r].body.email
                          /\ users'[u].email # Email("", "")
     /\ (resp'.kind = "putProfile" /\ reqs' = reqs) => store' = store
  ]_vars

\* a body carrying role and password was accepted and only the username
\* changed
C12_RoleInBodyIgnored ==
  /\ resp.kind = "putProfile" /\ resp.status = 200
  /\ resp.body.role = {"admin"} /\ resp.body.password = {"hacked1"}
  /\ resp.body.username = {Bob}
  /\ resp.user.id \in DOMAIN users
  /\ users[resp.user.id].username = Bob
  /\ users[resp.user.id].role = "user"
  /\ users[resp.user.id].password = Hash("secret1")

\* C13: a PUT or DELETE of an authenticated requester that has passed
\* validation is answered 404 exactly when no book has the id of the path,
\* and 403 exactly when the book exists and the requester is neither its
\* owner nor an admin.
C13_NotFoundOrForbidden ==
  [][\A r \in Slots :
       LET q == reqs[r] IN
       (Moves(r) /\ q.pc = "find" /\ q.kind \in {"putBook", "deleteBook"})
       => /\ (resp'.kind = q.kind /\ resp'.status = 404)
               <=> q.id \notin DOMAIN books
          /\ (resp'.kind = q.kind /\ resp'.status = 403)
               <=> /\ q.id \in DOMAIN books
                   /\ books[q.id].addedBy # q.user.id
                   /\ q.user.role # "admin"
  ]_vars

\* the users whose e-mail address and password are those of body b
C14_Verified(b) ==
  {u \in DOMAIN users :
     users[u].email = b.email /\ users[u].password = Hash(b.password)}

\* C14: login answers 200 with a token exactly when a user has the
\* supplied e-mail address and the supplied password verifies against the
\* stored digest; the token carries the id of that user; every other
\* login is answered without a token, 401 when the request is well formed
\* and the stored digest readable; login never changes the user store.
C14_LoginIssuesIffVerified ==
  [][resp'.kind = "login"
       => /\ users' = users /\ userSeq' = userSeq
          /\ resp'.status = 200 <=> C14_Verified(resp'.body) # {}
          /\ resp'.status = 200 <=> resp'.token # NoToken
          /\ resp'.status = 200
               => /\ resp'.token.userId \in C14_Verified(resp'.body)
                  /\ resp'.token.sig = "ok"
                  /\ resp'.user.id = resp'.token.userId
          /\ resp'.status # 200
               => /\ tokens' = tokens
                  /\ resp'.status \in {400, 401, 500}
                  /\ resp'.status = 400 <=> ~LoginValid(resp'.body)
                  /\ resp'.status = 500
                       => \E u \in DOMAIN users :
                             /\ users[u].email = resp'.body.email
                             /\ users[u].password = SeedDigest
  ]_vars

\* a registered user has logged in and holds a token carrying their id
C14_LoggedIn ==
  /\ resp.kind = "login" /\ resp.status = 200
  /\ resp.token # NoToken /\ resp.token \in tokens
  /\ resp.token.userId \in DOMAIN users
  /\ users[resp.token.userId].email = resp.body.email
  /\ users[resp.token.userId].password = Hash(resp.body.password)

\* the record of user u as the service shows it
C15_Record(u) ==
  [username |-> users[u].username, email |-> users[u].email,
   role |-> users[u].role]

\* C15: a registration with a fresh username and e-mail address is
\* answered 201 with a token and the new user's record; a login with the
\* registered credentials is answered 200 with a token of that user; GET
\* /profile with a valid token returns the record of the token's user;
\* none of the three answers carries a password field.
C15_RegisterLoginProfile ==
  /\ resp.kind \in {"register", "login", "getProfile"}
       => "password" \notin DOMAIN resp.account
  /\ (resp.kind = "register" /\ resp.status # 201)
       => ~RegisterValid(resp.body) \/ C5_Held(resp.body)
  /\ (resp.kind = "register" /\ resp.status = 201)
       => /\ resp.token # NoToken /\ resp.token.userId = resp.user.id
          /\ resp.user.id \in DOMAIN users
          /\ users[resp.user.id].password = Hash(resp.body.password)
          /\ resp.account = C15_Record(resp.user.id)
          /\ resp.account.username = resp.body.username
          /\ resp.account.email = resp.body.email
  /\ (resp.kind = "login" /\ C14_Verified(resp.body) # {})
       => /\ resp.status = 200 /\ resp.token # NoToken
          /\ resp.token.userId \in C14_Verified(resp.body)
          /\ resp.account = C15_Record(resp.token.userId)
  /\ (resp.kind = "getProfile" /\ resp.tok \in tokens
        /\ now < resp.tok.exp /\ resp.tok.userId \in DOMAIN users)
       => /\ resp.status = 200
          /\ resp.account = C15_Record(resp.tok.userId)

\* the profile was read with the token of a login that followed the
\* registration of the same user
C15_ProfileAfterLogin ==
  /\ resp.kind = "getProfile" /\ resp.status = 200
  /\ resp.account = C15_Record(resp.tok.userId)
  /\ users[resp.tok.userId].password = Hash("secret1")
  /\ \E t \in tokens : t.userId = resp.tok.userId /\ t.iat < resp.tok.iat

\* C16: an answer with status 500 carries a fixed generic error text and no
\* message of the underlying failure.
C16_NoInternalDetail ==
  resp.status = 500
    => /\ resp.message = ""
       /\ resp.error \in {"Registration failed", "Login failed",
                          "Failed to get profile", "Failed to update profile",
                          "Something went wrong!"}

\* C17: every stored username is 3 to 30 characters long and consists of
\* letters, digits and underscores only.
C17_UsernameFormat ==
  \A u \in DOMAIN users :
     /\ Len(users[u].username) >= 3 /\ Len(users[u].username) <= 30
     /\ matchesUsername(users[u].username)

C19_RefusalChangesNothing ==
  [][/\ (resp'.kind \in {"putBook", "deleteBook"}
           /\ resp'.status \in {400, 403, 404})
        => /\ books' = books /\ users' = users
           /\ bookSeq' = bookSeq /\ userSeq' = userSeq
     /\ \A r \in Slots :
          (Moves(r) /\ reqs[r].kind \in {"putBook", "deleteBook"}
             /\ (books' # books \/ users' # users))
          => /\ resp'.status \in {200, 500}
             /\ reqs[r].pc \in {"update", "delete"}
     /\ \A r \in Slots :
          (reqs[r].pc = "idle" /\ reqs'[r].kind \in {"putBook", "deleteBook"})
          => books' = books /\ users' = users
  ]_vars

\* a DELETE by a user who neither owns the book nor is an admin was refused
\* and the book is still stored
C19_ForbiddenDeleteKeepsBook ==
  /\ resp.kind = "deleteBook" /\ resp.status = 403
  /\ resp.id \in DOMAIN books
  /\ books[resp.id].addedBy # resp.user.id

\* C20: a PUT answered 200 carries the book as it is stored after the
\* update, never a null book.
C20_UpdatedBookReturned ==
  (resp.kind = "putBook" /\ resp.status = 200)
    => /\ resp.book # NoBook
       /\ resp.book.id = resp.id
       /\ resp.id \in DOMAIN books
       /\ resp.book = Doc(resp.id)

\* C21: a DELETE is answered 200 only by the request that removes the
\* book: the book is stored when that answer's step begins and gone after
\* it, so that no second DELETE of the same book is answered 200.
C21_DeletedOnce ==
  [][\A r \in Slots :
       (Moves(r) /\ reqs[r].kind = "deleteBook"
          /\ resp'.kind = "deleteBook" /\ resp'.status = 200)
       => /\ reqs[r].id \in DOMAIN books
          /\ reqs[r].id \notin DOMAIN books'
  ]_vars

\* the books a listing answer is about: those matching the genre filter,
\* of the requester alone for my-books
C22_Listed ==
  IF resp.kind = "myBooks"
    THEN {b \in DOMAIN books : books[b].addedBy = resp.user.id}
  ELSE {b \in DOMAIN books : \A g \in resp.body.genre : books[b].genre = g}

\* the position of book b among the listed books, newest first, from 0
C22_Rank(b) == Cardinality({c \in C22_Listed : c > b})

\* the value a page or limit parameter stands for
C22_Param(param, default) ==
  IF param = {} \/ param = {NotANumber} \/ param = {Num(0)} THEN default
  ELSE (CHOOSE x \in param : TRUE).val

\* C22: every listing request is answered with a page: page and limit are
\* the parameters sent, 1 and 10 when absent, non-numeric or 0; the page
\* holds at most limit books, those at positions (page-1)*limit to
\* page*limit-1 of the listed books newest first, and pages is
\* ceil(total/limit).
C22_Pagination ==
  resp.kind \in {"getBooks", "myBooks"}
    => /\ resp.status \in {200, 401}
       /\ resp.status = 200
            => /\ resp.page = C22_Param(resp.body.page, 1)
               /\ resp.limit = C22_Param(resp.body.limit, 10)
               /\ resp.total = Cardinality(C22_Listed)
               /\ Len(resp.list) <= resp.limit
               /\ \A i, j \in 1..Len(resp.list) :
                     i < j => resp.list[i] > resp.list[j]
               /\ {resp.list[i] : i \in 1..Len(resp.list)} =
                    {b \in C22_Listed :
                       /\ C22_Rank(b) >= (resp.page - 1) * resp.limit
                       /\ C22_Rank(b) <= resp.page * resp.limit - 1}
               /\ resp.pages * resp.limit >= resp.total
               /\ (resp.pages - 1) * resp.limit < resp.total

\* C23: the total of a GET /books answer counts the books of the store
\* state the page was read from, so the page never holds more books than
\* total - (page-1)*limit (none when the page lies beyond the last book).
C23_TotalMatchesPage ==
  (resp.kind = "getBooks" /\ resp.status = 200)
    => LET rest == resp.total - (resp.page - 1) * resp.limit
       IN  Len(resp.list) <= (IF rest > 0 THEN rest ELSE 0)

\* C24: the page GET /books/user/my-books reads holds books of the
\* requester only, and the total it answers counts exactly the requester's
\* books, whatever the query parameters and the requester's role.
C24_OnlyOwnBooks ==
  [][\A r \in Slots :
       LET q == reqs[r] IN
       /\ (Moves(r) /\ q.kind = "myBooks" /\ q.pc = "find"
             /\ reqs'[r].pc = "count")
          => \A i \in 1..Len(reqs'[r].list) :
                /\ reqs'[r].list[i] \in DOMAIN books
                /\ books[reqs'[r].list[i]].addedBy = q.user.id
       /\ (Moves(r) /\ q.kind = "myBooks" /\ q.pc = "count")
          => /\ resp'.list = q.list
             /\ resp'.user = q.user
             /\ resp'.total =
                  Cardinality({b \in DOMAIN books :
                                 books[b].addedBy = q.user.id})
  ]_vars

\* an admin who owns one of two stored books was shown that book alone
C24_AdminSeesOwnOnly ==
  /\ resp.kind = "myBooks" /\ resp.status = 200
  /\ resp.user.role = "admin"
  /\ Len(resp.list) = 1 /\ resp.total = 1
  /\ books[resp.list[1]].addedBy = resp.user.id
  /\ \E b \in DOMAIN books : books[b].addedBy # resp.user.id

\* C25: every user document a registration creates has the role user,
\* whatever the request body carries, and no step of a register, login or
\* profile request changes the role of a stored user.
C25_NoAdminByRegistration ==
  [][/\ \A u \in DOMAIN users' \ DOMAIN users :
          /\ users'[u].role = "user"
          /\ \E r \in Slots : reqs[r].kind = "register" /\ Moves(r)
     /\ \A u \in DOMAIN users \cap DOMAIN users' :
          users'[u].role = users[u].role
  ]_vars

\* a registration whose body asked for the admin role created a user
C25_RoleInBodyIgnored ==
  /\ resp.kind = "register" /\ resp.status = 201
  /\ Has(resp.body, "role") /\ resp.body.role = "admin"
  /\ users[resp.user.id].role = "user"
  /\ resp.account.role = "user"

\* the user collection without user u
C26_Without(u) == [v \in DOMAIN users \ {u} |-> users[v]]

====
